---- MODULE Spec2Model ----
\* A model of the OBS playback controller: the tag-indexed shuffle-bag selector
\* (modules/video_library.py), the A/B transition calculator and the playback
\* orchestrator with its timer threads (modules/obs_controller.py), and the
\* media-ended notification handler (main.py).
\*
\* Times are integers in milliseconds. Scene, source and tag names are strings;
\* the standby tag (the literal "待機" of the source) is written "standby".
EXTENDS Integers, Sequences, FiniteSets, TLC

\* ------------------------------------------------------------------ bounds

\* Number of segments of the catalog's largest tag ("clips").
NSeg == 3

\* Number of play_video_segment invocations in one run (every invocation gets a
\* fresh session number, and a timer thread is named after its session).
MaxPlays == 2

\* Number of requests to the composition service that fail in one run.
MaxFaults == 1

\* ------------------------------------------------------------ the catalog

None == "None"

\* A catalog time string "HH:MM:SS[.ffffff]" or one of the literals full / end,
\* kept as its fields: sep is the separator character, frac says whether the
\* ".ffffff" part is written.
TimeStr(h, m, s, us, frac) ==
    [lit |-> "hms", h |-> h, m |-> m, s |-> s, us |-> us, frac |-> frac, sep |-> ":"]

FullStr == [lit |-> "full", h |-> 0, m |-> 0, s |-> 0, us |-> 0, frac |-> FALSE, sep |-> ""]

EndStr == [lit |-> "end", h |-> 0, m |-> 0, s |-> 0, us |-> 0, frac |-> FALSE, sep |-> ""]

Seg(start, end) == [start_time |-> start, end_time |-> end]

\* The "clips" tag: NSeg one-second segments of c.mp4.
ClipSegs == [i \in 1..NSeg |-> Seg(TimeStr(0, 0, i, 0, FALSE), TimeStr(0, 0, i + 1, 0, FALSE))]

\* video_event.json "videos": file name (stem, extension), optional volume
\* multiplier (in percent, <<>> when the key is absent), tags.
Videos ==
    << [file_name |-> [stem |-> "a", ext |-> ".mp4"],
        volume_multiplier |-> <<80>>,
        tags |-> [intro |-> << Seg(TimeStr(0, 0, 5, 0, TRUE), TimeStr(0, 0, 10, 0, TRUE)) >>,
                  standby |-> << Seg(FullStr, FullStr) >>]],
       [file_name |-> [stem |-> "b", ext |-> ".mp4"],
        volume_multiplier |-> <<>>,
        tags |-> [intro |-> << Seg(TimeStr(0, 0, 2, 500000, TRUE), EndStr) >>,
                  empty |-> << >>,
                  badtime |-> << Seg(TimeStr(0, 75, 0, 0, FALSE), EndStr) >>]],
       [file_name |-> [stem |-> "c", ext |-> ".mp4"],
        volume_multiplier |-> <<120>>,
        tags |-> [clips |-> ClipSegs]] >>

\* Tags a caller may ask for; "missing" is in no video's tags.
AllTags == {"intro", "standby", "empty", "badtime", "clips", "missing"}

\* ------------------------------------------------------- TimeConverter

\* strptime accepts the string under "%H:%M:%S.%f" or, failing that, "%H:%M:%S".
ParsesAs(t, withFraction) ==
    /\ t.lit = "hms"
    /\ t.frac = withFraction
    /\ t.h \in 0..23 /\ t.m \in 0..59 /\ t.s \in 0..61
    /\ t.us \in 0..999999

ToSecondsRaises(t) ==
    /\ t.lit \notin {"full", "end"}
    /\ ~ParsesAs(t, TRUE)
    /\ ~ParsesAs(t, FALSE)

Num(ms) == [num |-> TRUE, ms |-> ms, lit |-> ""]

Lit(l) == [num |-> FALSE, ms |-> 0, lit |-> l]

\* TimeConverter.to_seconds, the seconds held in milliseconds.
to_seconds(t) ==
    IF t.lit \in {"full", "end"} THEN Lit(t.lit)
    ELSE IF ParsesAs(t, TRUE)
         THEN Num((t.h * 3600 + t.m * 60 + t.s) * 1000 + t.us \div 1000)
         ELSE Num((t.h * 3600 + t.m * 60 + t.s) * 1000)

\* ---------------------------------------------------------- VideoLibrary

Range(s) == {s[i] : i \in DOMAIN s}

NoRepeats(s) == \A i, j \in DOMAIN s : s[i] = s[j] => i = j

\* The (video, segment) pairs video vi contributes to a tag, in catalog order.
TagPairs(tag, vi) ==
    IF tag \in DOMAIN Videos[vi].tags
    THEN [si \in 1..Len(Videos[vi].tags[tag]) |-> [v |-> vi, tag |-> tag, i |-> si]]
    ELSE << >>

RECURSIVE BuildTagCache(_, _)
BuildTagCache(tag, n) ==
    IF n = 0 THEN << >> ELSE BuildTagCache(tag, n - 1) \o TagPairs(tag, n)

TagCacheKeys == UNION {DOMAIN Videos[vi].tags : vi \in 1..Len(Videos)}

\* self._tag_cache[tag]
tag_cache(tag) == BuildTagCache(tag, Len(Videos))

\* random.shuffle: any permutation of the pool.
Shuffles(pool) ==
    {[i \in 1..Len(pool) |-> pool[p[i]]] :
        p \in {q \in [1..Len(pool) -> 1..Len(pool)] : NoRepeats(q)}}

VideoSegment(path, start, end, vol) ==
    [file_path |-> path, start_time |-> start, end_time |-> end, volume_multiplier |-> vol]

NoSegment == VideoSegment([dir |-> None, name |-> [stem |-> None, ext |-> None]], Lit(None), Lit(None), 0)

\* str.replace(":", "-") on a time string.
SafeStr(t) == [t EXCEPT !.sep = IF t.sep = ":" THEN "-" ELSE t.sep]

\* The pre-rendered clip's file name: {stem}_{safe_start}_{safe_end}.mkv
ClippedFilename(video, seg) ==
    [root |-> video.file_name.stem,
     safe_start |-> SafeStr(seg.start_time),
     safe_end |-> IF seg.end_time.lit \in {"full", "end"} THEN SafeStr(EndStr)
                  ELSE SafeStr(seg.end_time),
     ext |-> ".mkv"]

NoPair == [v |-> 0, tag |-> None, i |-> 0]

\* A wrong variant of ResolveSegment: the pre-rendered clip is returned with
\* the trim bounds of the raw file.
ResolveSegmentTrimmed(pair, clips) ==
    LET chosen_video == Videos[pair.v]
        chosen_segment == chosen_video.tags[pair.tag][pair.i]
        start_str == chosen_segment.start_time
        end_str == chosen_segment.end_time
        vol_mul == IF chosen_video.volume_multiplier = << >> THEN 100
                   ELSE chosen_video.volume_multiplier[1]
        clipped == ClippedFilename(chosen_video, chosen_segment)
    IN IF start_str.lit # "full" /\ clipped \in clips
       THEN VideoSegment([dir |-> "clips", name |-> clipped],
                         to_seconds(start_str), to_seconds(end_str), vol_mul)
       ELSE VideoSegment([dir |-> "raw", name |-> chosen_video.file_name],
                         to_seconds(start_str), to_seconds(end_str), vol_mul)

\* Lines 94-112: the VideoSegment built from the chosen pair; clips is the set
\* of file names present in the clips directory.
ResolveSegment(pair, clips) ==
    LET chosen_video == Videos[pair.v]
        chosen_segment == chosen_video.tags[pair.tag][pair.i]
        start_str == chosen_segment.start_time
        end_str == chosen_segment.end_time
        vol_mul == IF chosen_video.volume_multiplier = << >> THEN 100
                   ELSE chosen_video.volume_multiplier[1]
        clipped == ClippedFilename(chosen_video, chosen_segment)
    IN IF start_str.lit # "full" /\ clipped \in clips
       THEN VideoSegment([dir |-> "clips", name |-> clipped], Lit("full"), Lit("full"), vol_mul)
       ELSE VideoSegment([dir |-> "raw", name |-> chosen_video.file_name],
                         to_seconds(start_str), to_seconds(end_str), vol_mul)

\* Lines 96-97: to_seconds raises ValueError on a malformed time string.
ResolveRaises(pair) ==
    LET chosen_segment == Videos[pair.v].tags[pair.tag][pair.i]
    IN ToSecondsRaises(chosen_segment.start_time) \/ ToSecondsRaises(chosen_segment.end_time)

\* Line 80: the tag is not indexed, or indexed with no segment.
TagNotFound(tag) == tag \notin TagCacheKeys \/ tag_cache(tag) = << >>

\* Line 84: the tag's bag is missing or empty.
NeedsRefill(tag, pools) == tag \notin DOMAIN pools \/ pools[tag] = << >>

\* A wrong variant of PopFrom: the pair is returned but stays in the bag.
PopFromKeeping(tag, pools, pool) ==
    [exc |-> None,
     refilled |-> NeedsRefill(tag, pools),
     pair |-> pool[Len(pool)],
     pools |-> [t \in DOMAIN pools \cup {tag} |-> IF t = tag THEN pool ELSE pools[t]],
     segment |-> NoSegment]

\* Lines 84-91: the bag the pop takes from (a fresh shuffle when a refill is
\* needed), the popped pair and the bags afterwards.
PopFrom(tag, pools, pool) ==
    [exc |-> None,
     refilled |-> NeedsRefill(tag, pools),
     pair |-> pool[Len(pool)],
     pools |-> [t \in DOMAIN pools \cup {tag} |->
                   IF t = tag THEN SubSeq(pool, 1, Len(pool) - 1) ELSE pools[t]],
     segment |-> NoSegment]

\* A wrong variant of get_random_segment_by_tag: the tag's bag is created before
\* the tag is looked up, so a failed lookup leaves an empty bag behind.
get_random_segment_by_tag_eager(tag, pools, clips) ==
    IF TagNotFound(tag)
    THEN {[exc |-> "ValueError", refilled |-> FALSE, pair |-> NoPair,
           pools |-> [t \in DOMAIN pools \cup {tag} |->
                         IF t \in DOMAIN pools THEN pools[t] ELSE << >>],
           segment |-> NoSegment]}
    ELSE {IF ResolveRaises(o.pair)
          THEN [o EXCEPT !.exc = "ValueError"]
          ELSE [o EXCEPT !.segment = ResolveSegment(o.pair, clips)] :
             o \in {PopFrom(tag, pools, pool) :
                      pool \in IF NeedsRefill(tag, pools) THEN Shuffles(tag_cache(tag))
                               ELSE {pools[tag]}}}

\* get_random_segment_by_tag: every outcome of one call, as
\* [exc, refilled, pair, pools, segment]; exc is None or "ValueError".
get_random_segment_by_tag(tag, pools, clips) ==
    IF TagNotFound(tag)
    THEN {[exc |-> "ValueError", refilled |-> FALSE, pair |-> NoPair,
           pools |-> pools, segment |-> NoSegment]}
    ELSE {IF ResolveRaises(o.pair)
          THEN [o EXCEPT !.exc = "ValueError"]
          ELSE [o EXCEPT !.segment = ResolveSegment(o.pair, clips)] :
             o \in {PopFrom(tag, pools, pool) :
                      pool \in IF NeedsRefill(tag, pools) THEN Shuffles(tag_cache(tag))
                               ELSE {pools[tag]}}}

\* -------------------------------------------------- OBSController: names

\* _parse_scene_settings: the scene and source names of the configuration.
SCENE_MAIN == "Main"

SCENE_EVENT == "Event"

SCENE_PREVIEW == "Preview"

SOURCE_MEDIA == "Media"

SOURCE_BG_MAIN == "BgMain"

SOURCE_BG_PREVIEW == "BgPreview"

\* The tag of the standby loop (the literal of lines 112 and 135).
STANDBY == "standby"

\* A scene of the composition service that the configuration does not name.
SCENE_OTHER == "Other"

\* A wrong variant of calculate_ab_transition: it tests for the main scene, so
\* every scene but Main is treated like Preview.
calculate_ab_transition_from_main(current_scene) ==
    IF current_scene = SCENE_MAIN
    THEN [target_scene |-> SCENE_PREVIEW, preview_scene |-> SCENE_MAIN,
          bg_source |-> SOURCE_BG_MAIN, hide_source |-> SOURCE_BG_PREVIEW]
    ELSE [target_scene |-> SCENE_MAIN, preview_scene |-> SCENE_PREVIEW,
          bg_source |-> SOURCE_BG_PREVIEW, hide_source |-> SOURCE_BG_MAIN]

\* A wrong variant of calculate_ab_transition: it never alternates.
calculate_ab_transition_stuck(current_scene) ==
    [target_scene |-> SCENE_PREVIEW, preview_scene |-> SCENE_MAIN,
     bg_source |-> SOURCE_BG_MAIN, hide_source |-> SOURCE_BG_PREVIEW]

\* calculate_ab_transition
calculate_ab_transition(current_scene) ==
    IF current_scene = SCENE_PREVIEW
    THEN [target_scene |-> SCENE_MAIN, preview_scene |-> SCENE_PREVIEW,
          bg_source |-> SOURCE_BG_PREVIEW, hide_source |-> SOURCE_BG_MAIN]
    ELSE [target_scene |-> SCENE_PREVIEW, preview_scene |-> SCENE_MAIN,
          bg_source |-> SOURCE_BG_MAIN, hide_source |-> SOURCE_BG_PREVIEW]

\* ------------------------------------- play_video_segment: the commands

\* isinstance(x, (int, float)) on a resolved start or end marker.
IsNumber(x) == x.num

\* A wrong variant of PlannedCommands: the media source is rebound before it is
\* muted, and unmuted before the cursor is set.
PlannedCommandsUnmuted(a, current_scene) ==
    (IF a.hide # None THEN <<"hide">> ELSE << >>)
    \o <<"show", "bind", "mute", "volume">>
    \o (IF current_scene # SCENE_EVENT THEN <<"scene">> ELSE << >>)
    \o <<"unmute">>
    \o (IF IsNumber(a.segment.start_time) THEN [i \in 1..5 |-> "cursor"] ELSE << >>)
    \o <<"play">>

\* Lines 259-299: the requests play_video_segment sends, in order, when none
\* fails; current_scene is what get_current_program_scene answers at line 282.
PlannedCommands(a, current_scene) ==
    (IF a.hide # None THEN <<"hide">> ELSE << >>)
    \o <<"show", "mute", "bind", "volume">>
    \o (IF current_scene # SCENE_EVENT THEN <<"scene">> ELSE << >>)
    \o (IF IsNumber(a.segment.start_time) THEN [i \in 1..5 |-> "cursor"] ELSE << >>)
    \o <<"unmute", "play">>

\* The requests whose failure is caught inside play_video_segment (lines 260-271).
Guarded == {"hide", "show"}

\* The requests sent when the failAt-th one fails (0: none fails): a failure of
\* hide or show is swallowed, any other propagates out of play_video_segment.
IssuedCommands(a, current_scene, failAt) ==
    LET planned == PlannedCommands(a, current_scene)
    IN IF failAt \in DOMAIN planned /\ planned[failAt] \notin Guarded
       THEN SubSeq(planned, 1, failAt)
       ELSE planned

CommandsRaise(a, current_scene, failAt) ==
    LET planned == PlannedCommands(a, current_scene)
    IN failAt \in DOMAIN planned /\ planned[failAt] \notin Guarded

\* The composition service after one request that succeeded. o is
\* [program_scene, preview_scene, bg, media]; bg is the set of background
\* sources enabled in the event scene; of the media source the model keeps the
\* file bound to it (with the session that bound it), whether it is muted and
\* whether it is playing, not its volume or cursor.
ApplyCommand(o, cmd, a) ==
    CASE cmd = "hide" -> [o EXCEPT !.bg = @ \ {a.hide}]
      [] cmd = "show" -> [o EXCEPT !.bg = @ \cup {a.bg}]
      [] cmd = "mute" -> [o EXCEPT !.media.muted = TRUE]
      [] cmd = "bind" -> [o EXCEPT !.media.file = a.segment.file_path,
                                   !.media.session = a.session,
                                   !.media.playing = FALSE]
      [] cmd = "volume" -> o
      [] cmd = "scene" -> [o EXCEPT !.program_scene = SCENE_EVENT]
      [] cmd = "cursor" -> o
      [] cmd = "unmute" -> [o EXCEPT !.media.muted = FALSE]
      [] cmd = "play" -> [o EXCEPT !.media.playing = TRUE]

\* The composition service after the first n requests of cmds, the failAt-th
\* one having had no effect.
RECURSIVE ApplyCommands(_, _, _, _, _)
ApplyCommands(o, cmds, n, failAt, a) ==
    IF n = 0 THEN o
    ELSE LET before == ApplyCommands(o, cmds, n - 1, failAt, a)
         IN IF n = failAt THEN before ELSE ApplyCommand(before, cmds[n], a)

\* ------------------------------------- play_video_segment: timed or not

\* Answers of GetMediaInputStatus for the duration, in milliseconds; -1 is
\* _wait_for_media_duration giving up after its 20 attempts.
PollResults == {-1, 20000}

\* Answers for the cursor read back at line 313: unreadable (None), negative,
\* or a position.
NoCursor == [readable |-> FALSE, ms |-> 0]

CursorReadings(commanded_ms) ==
    {NoCursor} \cup {[readable |-> TRUE, ms |-> c] : c \in {-1, commanded_ms, 25000}}

\* Lines 305-308: the end the timer is computed from, -1000 when there is none.
EndMs(segment, media_duration_ms) ==
    IF segment.end_time.lit \in {"end", "full"} /\ media_duration_ms > 0
    THEN media_duration_ms
    ELSE IF IsNumber(segment.end_time) THEN segment.end_time.ms ELSE -1000

\* Line 305
CommandedStartMs(segment) ==
    IF IsNumber(segment.start_time) THEN segment.start_time.ms ELSE 0

\* A wrong variant of PlayDurationMs: the 0.2 s of grace are left out.
PlayDurationMsNoGrace(segment, media_duration_ms, cursor) ==
    LET actual_start_ms == IF cursor.readable /\ cursor.ms >= 0 THEN cursor.ms
                           ELSE CommandedStartMs(segment)
    IN EndMs(segment, media_duration_ms) - actual_start_ms

\* Lines 316-317: the timer's delay.
PlayDurationMs(segment, media_duration_ms, cursor) ==
    LET actual_start_ms == IF cursor.readable /\ cursor.ms >= 0 THEN cursor.ms
                           ELSE CommandedStartMs(segment)
    IN (EndMs(segment, media_duration_ms) - actual_start_ms) + 200

\* Lines 310 and 319: a timer is armed.
ArmsTimer(segment, media_duration_ms, cursor) ==
    /\ EndMs(segment, media_duration_ms) > 0
    /\ PlayDurationMs(segment, media_duration_ms, cursor) > 0

\* ------------------------------------------------------------------ state

VARIABLES
    shuffle_pools,   \* VideoLibrary._shuffle_pools: tag -> bag, for the tags that have one
    clips_dir,       \* the file names present in the clips directory
    settings,        \* the structure of the catalog file: the keys present, the number of videos
    constructed,     \* VideoLibrary(...): "no" (not called), "yes" (returned), "ValueError" (raised)
    lib_result,      \* history: what the last call of the selector on its own did
    drawn,           \* history: per tag, the pairs popped since the bag's last refill
    pops,            \* history: per tag, the number of pairs popped so far
    library,             \* OBSController.library is set (set_library was called)
    is_timed_playback,
    active_timer_thread, \* a timer thread, or 0 for None
    current_target_scene,
    current_preview_target,
    is_standby_mode,
    ignore_end_event_counter, \* <<n>> when the attribute exists, << >> when it does not
    obs,             \* the composition service: program and preview scene, backgrounds, media source
    events,          \* MediaInputPlaybackStateChanged(SOURCE_MEDIA, ENDED) not yet delivered
    th,              \* the threads: the request handler, the timers, those the event handler starts
    response,        \* history: the last answer of handle_play_request
    hist             \* history: the session numbering and what became of the latest session

libvars == <<shuffle_pools, clips_dir, settings, constructed>>

libhist == <<lib_result, drawn, pops>>

ctlvars == <<library, is_timed_playback, active_timer_thread, current_target_scene,
             current_preview_target, is_standby_mode, ignore_end_event_counter>>

vars == <<shuffle_pools, clips_dir, settings, constructed, lib_result, drawn, pops, library, is_timed_playback,
          active_timer_thread, current_target_scene, current_preview_target,
          is_standby_mode, ignore_end_event_counter, obs, events, th, response, hist>>

\* The keys VideoLibrary.__init__ reads with a subscript (lines 24-33), in the
\* order it reads them; "root" is read with a default and is not required.
RequiredKeys == <<"global_settings", "path_config", "raw_videos", "clips", "videos">>

\* The catalog file of this model: every key present, Videos as its videos.
FullSettings == [keys |-> Range(RequiredKeys), videos |-> Len(Videos)]

\* Catalog files with any of the keys missing and with an empty or the full
\* video list.
CatalogShapes ==
    [keys : SUBSET Range(RequiredKeys), videos : {0, Len(Videos)}]

\* VideoLibrary.__init__ on a catalog file that parsed as JSON: a KeyError of
\* lines 24-33 is turned into ValueError (lines 34-36); nothing looks at the
\* length of the video list.
VideoLibraryInit(catalog) ==
    IF \E k \in Range(RequiredKeys) : k \notin catalog.keys THEN "ValueError" ELSE "yes"

\* A variant of VideoLibraryInit that also rejects an empty video list.
VideoLibraryInitStrict(catalog) ==
    IF (\E k \in Range(RequiredKeys) : k \notin catalog.keys) \/ catalog.videos = 0
    THEN "ValueError" ELSE "yes"

\* Pops per tag in one run: one full cycle of the tag's pool and the pop after it.
MaxPops(tag) == Len(tag_cache(tag)) + 1

\* Clip files that may have been rendered before the program starts.
RenderedClips == {ClippedFilename(Videos[1], Videos[1].tags["intro"][1])}

NoResult == [tag |-> None, exc |-> None, refilled |-> FALSE, pair |-> NoPair, segment |-> NoSegment]

\* Threads: 0 handles the play requests; thread s in 1..MaxPlays is the timer
\* armed by the s-th play_video_segment invocation; the threads above MaxPlays
\* are those the event handler starts, one per notification (a file is reported
\* as ended at most twice: when it plays to its end, and when the media source
\* is rebound while it plays; session 0 is the file the media source held when
\* the program started).
ReqThread == 0

Sessions == 1..MaxPlays

TimerThreads == 1..MaxPlays

MaxEvents == 2 * (MaxPlays + 1)

EvtThread(e) == MaxPlays + 2 * e.session + (IF e.stale THEN 1 ELSE 2)

Threads == 0..(MaxPlays + MaxEvents)

\* A thread that is not running. The fields: where it is (pc); the arguments
\* of the play_video_segment call it is in (tag, segment, bg, hide, target,
\* preview) and that call's session number; for a timer or a delayed preview
\* assignment, the arguments its Thread was created with (delay, t_target,
\* t_preview), and whether play_standby_video armed it (loop).
NoThread ==
    [pc |-> "none", tag |-> None, segment |-> NoSegment, bg |-> None, hide |-> None,
     target |-> None, preview |-> None, session |-> 0,
     delay |-> 0, t_target |-> None, t_preview |-> None, loop |-> FALSE]

\* The history. nplays: play_video_segment invocations so far; faults: failed
\* requests so far; latest: the session whose play_video_segment last replaced
\* the session fields; of that session, mode (pending, timed, untimed, failed),
\* boundary (it reached its end outside standby mode: its timer's delay is over,
\* or, untimed, the notification of its clip playing to the end was handled)
\* and restored (the restore sequences executed for it, by its timer or by the
\* event handler); origin: the scene that was on program when the last request
\* that started a session, or started the standby loop, arrived; standby: the
\* latest session is a step of the standby loop (play_standby_video called it).
NoHistory ==
    [nplays |-> 0, faults |-> 0, latest |-> 0, mode |-> "none", boundary |-> FALSE,
     restored |-> 0, origin |-> None, standby |-> FALSE]

\* A controller whose constructor assigns ignore_end_event_counter = 0.
InitialCounterAssigned == <<0>>

\* OBSController.__init__ assigns no attribute ignore_end_event_counter, and no
\* other line of the repository assigns it: the attribute is absent.
InitialCounter == << >>

\* OBSController.__init__ (lines 16-34), a fresh VideoLibrary (lines 38-40), and
\* a composition service showing one of the two slots with nothing bound to the
\* media source; clips: the files of the clips directory.
StartIn(clips, scenes, catalog, built, playing) ==
    /\ shuffle_pools = << >>
    /\ clips_dir = clips
    /\ settings = catalog
    /\ constructed = built
    /\ lib_result = NoResult
    /\ drawn = [t \in AllTags |-> << >>]
    /\ pops = [t \in AllTags |-> 0]
    /\ library = FALSE
    /\ is_timed_playback = FALSE
    /\ active_timer_thread = 0
    /\ current_target_scene = None
    /\ current_preview_target = None
    /\ is_standby_mode = FALSE
    /\ ignore_end_event_counter = InitialCounter
    /\ \E p \in scenes, b \in playing :
          obs = [program_scene |-> p,
                 preview_scene |-> IF p = SCENE_MAIN THEN SCENE_PREVIEW ELSE SCENE_MAIN,
                 bg |-> {},
                 media |-> [file |-> NoSegment.file_path, session |-> 0, muted |-> FALSE,
                            playing |-> b]]
    /\ events = << >>
    /\ th = [t \in Threads |-> IF t = ReqThread THEN [NoThread EXCEPT !.pc = "idle"] ELSE NoThread]
    /\ response = [tag |-> None, code |-> 0, played |-> FALSE, library |-> FALSE]
    /\ hist = NoHistory

\* The program started with nothing playing in the media source.
StartWith(clips, scenes, catalog, built) == StartIn(clips, scenes, catalog, built, {FALSE})

\* The program started with the catalog loaded.
StartOn(clips, scenes) == StartWith(clips, scenes, FullSettings, "yes")

\* The program started with one of the two slots on program.
Start(clips) == StartOn(clips, {SCENE_MAIN, SCENE_PREVIEW})

\* The program started before any clip was rendered.
Init == Start({})

\* The program started while the media source of the composition service may
\* be playing a file of its own.
IdleInit == StartIn({}, {SCENE_MAIN, SCENE_PREVIEW}, FullSettings, "yes", BOOLEAN)

\* The program started with any scene of the composition service on program.
AbInit == StartOn({}, {SCENE_MAIN, SCENE_PREVIEW, SCENE_EVENT, SCENE_OTHER})

\* The program started with any of the clips rendered.
LibInit == \E clips \in SUBSET RenderedClips : Start(clips)

\* ------------------------------------------------------------ the library

\* The program about to load any catalog file.
LoadInit ==
    \E catalog \in CatalogShapes :
        StartWith({}, {SCENE_MAIN, SCENE_PREVIEW}, catalog, "no")

\* main.py line 98: library = VideoLibrary("video_event.json").
LoadCatalog ==
    /\ constructed = "no"
    /\ constructed' = VideoLibraryInit(settings)
    /\ UNCHANGED <<shuffle_pools, clips_dir, settings, libhist, ctlvars, obs, events, th,
                   response, hist>>

\* Catalog loading alone.
LoadSpec == LoadInit /\ [][LoadCatalog]_vars

\* The effect of one call's outcome o on the library.
LibraryCall(tag, o) ==
    /\ shuffle_pools' = o.pools
    /\ UNCHANGED <<clips_dir, settings, constructed>>

\* One call of get_random_segment_by_tag(tag) by a caller of the library alone,
\* with the history of the pops kept.
LibSelect(tag) ==
    /\ pops[tag] < MaxPops(tag)
    /\ \E o \in get_random_segment_by_tag(tag, shuffle_pools, clips_dir) :
           /\ LibraryCall(tag, o)
           /\ lib_result' = [tag |-> tag, exc |-> o.exc, refilled |-> o.refilled,
                             pair |-> o.pair, segment |-> o.segment]
           /\ drawn' = IF o.pair = NoPair THEN drawn
                       ELSE [drawn EXCEPT ![tag] = IF o.refilled THEN <<o.pair>>
                                                   ELSE Append(@, o.pair)]
           /\ pops' = IF o.pair = NoPair THEN pops ELSE [pops EXCEPT ![tag] = @ + 1]
    /\ UNCHANGED <<ctlvars, obs, events, th, response, hist>>

LibNext == \E tag \in AllTags : LibSelect(tag)

\* The selector alone, called sequentially with any tags.
LibSpec == LibInit /\ [][LibNext]_vars

\* ------------------------------------------------------- the orchestrator

\* The tags whose segments have a pre-rendered clip or none by construction.
ClipTags == {"intro", "standby", "badtime"}

\* The clip files clip_video_segments.py renders for the tags of ClipTags: one
\* per segment whose start is not "full", named as lines 97-99 name it.
RenderableClips ==
    {ClippedFilename(Videos[p.v], Videos[p.v].tags[p.tag][p.i]) :
        p \in {q \in UNION {Range(tag_cache(tag)) : tag \in ClipTags} :
                  Videos[q.v].tags[q.tag][q.i].start_time.lit # "full"}}

\* The program started with any of these clips rendered.
ClipInit == \E clips \in SUBSET RenderableClips : Start(clips)

ClipNext == \E tag \in ClipTags : LibSelect(tag)

\* The selector alone, called for the tags of ClipTags.
ClipSpec == ClipInit /\ [][ClipNext]_vars

\* Tags the play requests of a run ask for.
RequestTags == {STANDBY, "intro", "empty", "missing", "badtime"}

\* set_library
SetLibrary ==
    /\ ~library
    /\ library' = TRUE
    /\ UNCHANGED <<libvars, libhist, is_timed_playback, active_timer_thread,
                   current_target_scene, current_preview_target, is_standby_mode,
                   ignore_end_event_counter, obs, events, th, response, hist>>

\* get_current_program_scene: the program scene, or None when the request fails.
ProgramSceneRead(readable) == IF readable THEN obs.program_scene ELSE None

\* Whether GetCurrentProgramScene may be answered or fail, within the run's faults.
Readable == IF hist.faults < MaxFaults THEN BOOLEAN ELSE {TRUE}

\* Which of n requests may fail (0: none), within the run's faults.
FailPoints(n, readable) == IF hist.faults < MaxFaults /\ readable THEN 0..n ELSE {0}

\* The threads after thread t's call of play_standby_video or play_video_segment
\* has returned (base: the threads otherwise). The request handler goes on to
\* its return statement; a timer thread returns at line 238; a thread started by
\* the event handler ends.
ThreadsAfterReturn(base, t) ==
    IF t = ReqThread THEN [base EXCEPT ![t] = [NoThread EXCEPT !.pc = "idle"]]
    ELSE [base EXCEPT ![t] = [NoThread EXCEPT !.pc = "done"]]

\* ------------------------------------- the selector, statement by statement

\* The execution contexts that call the selector: the thread handling a play
\* request (handle_play_request line 150, or play_standby_video line 112 called
\* from line 137) and a timer thread running a standby step (lines 237, 112).
SelectThreads == {ReqThread} \cup {t \in TimerThreads : t = ReqThread + 1}

\* The tags the two contexts ask for: the standby tag, with one segment, and a
\* tag with NSeg segments.
RaceTags == {STANDBY, "clips"}

\* The program started, no selection made yet.
RaceInit == Start({})

\* Lines 80-81: a context calls get_random_segment_by_tag(tag) for an indexed
\* tag and passes the lookup of the tag.
SelCall(t, tag) ==
    /\ th[t].pc \in {"idle", "none", "done"}
    /\ ~TagNotFound(tag)
    /\ pops[tag] < MaxPops(tag)
    /\ th' = [th EXCEPT ![t].pc = "sel_check", ![t].tag = tag]
    /\ UNCHANGED <<libvars, libhist, ctlvars, obs, events, response, hist>>

\* Line 84: the test of the tag's bag. No lock is held between this test, the
\* refill and the pop.
SelCheck(t) ==
    /\ th[t].pc = "sel_check"
    /\ th' = [th EXCEPT ![t].pc = IF NeedsRefill(th[t].tag, shuffle_pools)
                                  THEN "sel_refill" ELSE "sel_pop"]
    /\ UNCHANGED <<libvars, libhist, ctlvars, obs, events, response, hist>>

\* Lines 85-88: a copy of the tag's pairs is shuffled and stored as the bag.
SelRefill(t) ==
    /\ th[t].pc = "sel_refill"
    /\ \E pool \in Shuffles(tag_cache(th[t].tag)) :
          shuffle_pools' = [g \in DOMAIN shuffle_pools \cup {th[t].tag} |->
                               IF g = th[t].tag THEN pool ELSE shuffle_pools[g]]
    /\ drawn' = [drawn EXCEPT ![th[t].tag] = << >>]
    /\ th' = [th EXCEPT ![t].pc = "sel_pop"]
    /\ UNCHANGED <<clips_dir, settings, constructed, lib_result, pops, ctlvars, obs,
                   events, response, hist>>

\* Lines 91-112: list.pop() on the bag stored under the tag at that moment,
\* which raises IndexError on an empty list, and the VideoSegment returned.
SelPop(t) ==
    /\ th[t].pc = "sel_pop"
    /\ LET tag == th[t].tag
           pool == shuffle_pools[tag]
       IN IF pool = << >>
          THEN /\ lib_result' = [tag |-> tag, exc |-> "IndexError", refilled |-> FALSE,
                                 pair |-> NoPair, segment |-> NoSegment]
               /\ UNCHANGED <<shuffle_pools, drawn, pops>>
          ELSE LET o == PopFrom(tag, shuffle_pools, pool)
               IN /\ shuffle_pools' = o.pools
                  /\ lib_result' =
                        [tag |-> tag,
                         exc |-> IF ResolveRaises(o.pair) THEN "ValueError" ELSE None,
                         refilled |-> FALSE,
                         pair |-> o.pair,
                         segment |-> IF ResolveRaises(o.pair) THEN NoSegment
                                     ELSE ResolveSegment(o.pair, clips_dir)]
                  /\ drawn' = [drawn EXCEPT ![tag] = Append(@, o.pair)]
                  /\ pops' = [pops EXCEPT ![tag] = @ + 1]
    /\ th' = ThreadsAfterReturn(th, t)
    /\ UNCHANGED <<clips_dir, settings, constructed, ctlvars, obs, events, response, hist>>

RaceNext ==
    \/ \E t \in SelectThreads, tag \in RaceTags : SelCall(t, tag)
    \/ \E t \in SelectThreads : SelCheck(t)
    \/ \E t \in SelectThreads : SelRefill(t)
    \/ \E t \in SelectThreads : SelPop(t)

\* Two contexts calling the selector with no lock.
RaceSpec == RaceInit /\ [][RaceNext]_vars

\* handle_play_request's answer once the play it started has returned (lines
\* 138, 167-172) or raised (lines 176-178); played: play_video_segment returned.
ResponseAfterReturn(t, played) ==
    IF t = ReqThread
    THEN [tag |-> th[t].tag,
          code |-> IF th[t].tag = STANDBY \/ played THEN 200 ELSE 500,
          played |-> played,
          library |-> library]
    ELSE response

\* The thread on entering play_video_segment with these arguments.
Entering(t, tag, segment, bg, target, preview, hide) ==
    [th[t] EXCEPT !.pc = "pvs_begin", !.tag = tag, !.segment = segment, !.bg = bg,
                  !.hide = hide, !.target = target, !.preview = preview,
                  !.session = hist.nplays + 1]

\* handle_play_request(tag), up to its return or to the call of
\* play_standby_video (line 137) or play_video_segment (line 158).
HandlePlayRequest(tag) ==
    /\ th[ReqThread].pc = "idle"
    /\ hist.nplays < MaxPlays
    /\ UNCHANGED <<libhist, library, is_timed_playback, active_timer_thread,
                   current_target_scene, current_preview_target,
                   ignore_end_event_counter, obs, events>>
    /\ IF tag = STANDBY
       THEN /\ is_standby_mode' = TRUE
            /\ th' = [th EXCEPT ![ReqThread] = [NoThread EXCEPT !.pc = "standby_call", !.tag = tag]]
            /\ hist' = [hist EXCEPT !.origin = IF is_standby_mode THEN @ ELSE obs.program_scene]
            /\ UNCHANGED <<libvars, response>>
       ELSE /\ is_standby_mode' = FALSE
            /\ IF ~library
               THEN /\ response' = [tag |-> tag, code |-> 500, played |-> FALSE, library |-> library]
                    /\ UNCHANGED <<libvars, th, hist>>
               ELSE \E o \in get_random_segment_by_tag(tag, shuffle_pools, clips_dir) :
                      /\ LibraryCall(tag, o)
                      /\ IF o.exc # None
                         THEN /\ response' = [tag |-> tag, code |-> 404, played |-> FALSE,
                                              library |-> library]
                              /\ UNCHANGED <<th, hist>>
                         ELSE \E readable \in Readable :
                                LET transition_data ==
                                        calculate_ab_transition(ProgramSceneRead(readable))
                                IN /\ th' = [th EXCEPT ![ReqThread] =
                                               Entering(ReqThread, tag, o.segment,
                                                        transition_data.bg_source,
                                                        transition_data.target_scene,
                                                        transition_data.preview_scene,
                                                        transition_data.hide_source)]
                                   /\ hist' = [hist EXCEPT !.nplays = @ + 1,
                                                           !.faults = IF readable THEN @ ELSE @ + 1,
                                                           !.origin = obs.program_scene]
                                   /\ UNCHANGED response

\* A wrong variant of PlayStandbyVideo: the step takes its target, preview and
\* background from calculate_ab_transition on the current program scene.
PlayStandbyVideoAlternating(t) ==
    /\ th[t].pc = "standby_call"
    /\ UNCHANGED <<libhist, ctlvars, obs, events>>
    /\ IF ~library
       THEN /\ th' = ThreadsAfterReturn(th, t)
            /\ response' = ResponseAfterReturn(t, FALSE)
            /\ UNCHANGED <<libvars, hist>>
       ELSE /\ hist.nplays < MaxPlays
            /\ \E o \in get_random_segment_by_tag(STANDBY, shuffle_pools, clips_dir) :
                  /\ LibraryCall(STANDBY, o)
                  /\ IF o.exc # None
                     THEN /\ th' = ThreadsAfterReturn(th, t)
                          /\ response' = ResponseAfterReturn(t, FALSE)
                          /\ UNCHANGED hist
                     ELSE LET transition_data == calculate_ab_transition(obs.program_scene)
                          IN /\ th' = [th EXCEPT ![t] =
                                         Entering(t, th[t].tag, o.segment,
                                                  transition_data.bg_source,
                                                  transition_data.target_scene,
                                                  transition_data.preview_scene, None)]
                             /\ hist' = [hist EXCEPT !.nplays = @ + 1]
                             /\ UNCHANGED response

\* play_standby_video, up to its return or to the call of play_video_segment, in
\* the thread that called it: the request handler (line 137), a timer (line
\* 237) or a thread the event handler started (main.py line 138).
PlayStandbyVideo(t) ==
    /\ th[t].pc = "standby_call"
    /\ UNCHANGED <<libhist, ctlvars, obs, events>>
    /\ IF ~library
       THEN /\ th' = ThreadsAfterReturn(th, t)
            /\ response' = ResponseAfterReturn(t, FALSE)
            /\ UNCHANGED <<libvars, hist>>
       ELSE /\ hist.nplays < MaxPlays
            /\ \E o \in get_random_segment_by_tag(STANDBY, shuffle_pools, clips_dir) :
                  /\ LibraryCall(STANDBY, o)
                  /\ IF o.exc # None
                     THEN /\ th' = ThreadsAfterReturn(th, t)
                          /\ response' = ResponseAfterReturn(t, FALSE)
                          /\ UNCHANGED hist
                     ELSE /\ th' = [th EXCEPT ![t] =
                                      Entering(t, th[t].tag, o.segment, SOURCE_BG_MAIN,
                                               SCENE_MAIN, SCENE_PREVIEW, None)]
                          /\ hist' = [hist EXCEPT !.nplays = @ + 1]
                          /\ UNCHANGED response

\* play_video_segment, line 255: the first of the three assignments that
\* replace the session's fields. No lock is held: other threads run between
\* the assignments.
PvsBegin(t) ==
    /\ th[t].pc = "pvs_begin"
    /\ is_timed_playback' = FALSE
    /\ th' = [th EXCEPT ![t].pc = "pvs_target"]
    /\ hist' = [hist EXCEPT !.latest = th[t].session, !.mode = "pending",
                            !.boundary = FALSE, !.restored = 0,
                            !.standby = (th[t].tag = STANDBY)]
    /\ UNCHANGED <<libvars, libhist, library, active_timer_thread, current_target_scene,
                   current_preview_target, is_standby_mode, ignore_end_event_counter,
                   obs, events, response>>

\* play_video_segment, line 256
PvsSetTarget(t) ==
    /\ th[t].pc = "pvs_target"
    /\ current_target_scene' = th[t].target
    /\ th' = [th EXCEPT ![t].pc = "pvs_preview"]
    /\ UNCHANGED <<libvars, libhist, library, is_timed_playback, active_timer_thread,
                   current_preview_target, is_standby_mode, ignore_end_event_counter,
                   obs, events, response, hist>>

\* play_video_segment, line 257
PvsSetPreview(t) ==
    /\ th[t].pc = "pvs_preview"
    /\ current_preview_target' = th[t].preview
    /\ th' = [th EXCEPT ![t].pc = "pvs_cmds"]
    /\ UNCHANGED <<libvars, libhist, library, is_timed_playback, active_timer_thread,
                   current_target_scene, is_standby_mode, ignore_end_event_counter,
                   obs, events, response, hist>>

\* play_video_segment, lines 259-299: the requests to the composition service,
\* the failAt-th of which fails. Rebinding the media source while a clip is
\* playing makes the service report that clip as ended.
PvsCommands(t) ==
    /\ th[t].pc = "pvs_cmds"
    /\ \E readable \in Readable :
         LET a == th[t]
             current_scene == ProgramSceneRead(readable)
         IN \E failAt \in FailPoints(Len(PlannedCommands(a, current_scene)), readable) :
              LET cmds == IssuedCommands(a, current_scene, failAt)
                  raised == CommandsRaise(a, current_scene, failAt)
                  bound == \E n \in DOMAIN cmds : cmds[n] = "bind" /\ n # failAt
              IN /\ obs' = ApplyCommands(obs, cmds, Len(cmds), failAt, a)
                 /\ events' = IF bound /\ obs.media.playing
                              THEN Append(events, [session |-> obs.media.session, stale |-> TRUE])
                              ELSE events
                 /\ hist' = [hist EXCEPT
                               !.faults = IF readable /\ failAt = 0 THEN @ ELSE @ + 1,
                               !.mode = IF raised /\ a.session = hist.latest THEN "failed" ELSE @]
                 /\ IF raised
                    THEN /\ th' = ThreadsAfterReturn(th, t)
                         /\ response' = ResponseAfterReturn(t, FALSE)
                    ELSE /\ th' = [th EXCEPT ![t].pc = "pvs_poll"]
                         /\ UNCHANGED response
    /\ UNCHANGED <<libvars, libhist, ctlvars>>

\* play_video_segment, lines 301-327, _wait_for_media_duration having answered
\* media_duration_ms and the cursor having been read back as cursor: the
\* playback becomes timed (a timer thread is created and started) or stays
\* untimed.
PvsFinishWith(t, media_duration_ms, cursor) ==
    /\ th[t].pc = "pvs_poll"
    /\ LET a == th[t]
           s == a.session
           timed == ArmsTimer(a.segment, media_duration_ms, cursor)
       IN /\ IF timed
             THEN /\ is_timed_playback' = TRUE
                  /\ active_timer_thread' = s
                  /\ th' = [ThreadsAfterReturn(th, t) EXCEPT ![s] =
                              [NoThread EXCEPT
                                 !.pc = "sleep01",
                                 !.delay = PlayDurationMs(a.segment, media_duration_ms, cursor),
                                 !.t_target = a.target,
                                 !.t_preview = a.preview,
                                 !.loop = (a.tag = STANDBY)]]
             ELSE /\ is_timed_playback' = FALSE
                  /\ th' = ThreadsAfterReturn(th, t)
                  /\ UNCHANGED active_timer_thread
          /\ hist' = [hist EXCEPT !.mode = IF s # hist.latest THEN @
                                          ELSE IF timed THEN "timed" ELSE "untimed"]
    /\ response' = ResponseAfterReturn(t, TRUE)
    /\ UNCHANGED <<libvars, libhist, library, current_target_scene, current_preview_target,
                   is_standby_mode, ignore_end_event_counter, obs, events>>

PvsFinish(t) ==
    \E media_duration_ms \in PollResults :
      \E cursor \in CursorReadings(CommandedStartMs(th[t].segment)) :
         PvsFinishWith(t, media_duration_ms, cursor)

\* _timer_worker, lines 226-228: after 0.1 s the thread gives up unless it is
\* the active timer thread.
TimerCheck(i) ==
    /\ th[i].pc = "sleep01"
    /\ th' = IF i # active_timer_thread THEN [th EXCEPT ![i] = [NoThread EXCEPT !.pc = "done"]]
             ELSE [th EXCEPT ![i].pc = "waiting"]
    /\ UNCHANGED <<libvars, libhist, ctlvars, obs, events, response, hist>>

\* A wrong variant of set_current_scene: the request sets the preview scene.
set_current_scene_on_preview(o, scene_name) == [o EXCEPT !.preview_scene = scene_name]

\* set_current_scene(scene_name), the scene being one of the service's scenes.
set_current_scene(o, scene_name) == [o EXCEPT !.program_scene = scene_name]

\* set_current_preview_scene(scene_name)
set_current_preview_scene(o, scene_name) == [o EXCEPT !.preview_scene = scene_name]

\* A wrong variant of TimerFire: the restore switches to the target recorded
\* in the controller's field at that moment instead of the timer's own argument.
TimerFireFromFields(i) ==
    /\ th[i].pc = "waiting"
    /\ IF is_standby_mode
       THEN /\ th' = IF library THEN [th EXCEPT ![i].pc = "standby_call", ![i].tag = STANDBY]
                     ELSE [th EXCEPT ![i] = [NoThread EXCEPT !.pc = "done"]]
            /\ UNCHANGED <<obs, active_timer_thread, hist>>
       ELSE /\ obs' = set_current_scene(obs, current_target_scene)
            /\ hist' = IF i = hist.latest
                       THEN [hist EXCEPT !.boundary = TRUE,
                                         !.restored = IF @ < 2 THEN @ + 1 ELSE @]
                       ELSE hist
            /\ IF th[i].t_preview # None
               THEN /\ th' = [th EXCEPT ![i].pc = "settle", ![i].t_target = current_target_scene]
                    /\ UNCHANGED active_timer_thread
               ELSE /\ th' = [th EXCEPT ![i] = [NoThread EXCEPT !.pc = "done"]]
                    /\ active_timer_thread' = 0
    /\ UNCHANGED <<libvars, libhist, library, is_timed_playback, current_target_scene,
                   current_preview_target, is_standby_mode, ignore_end_event_counter,
                   events, response>>

\* _timer_worker, lines 230-241 and 248: the delay is over. In standby mode the
\* thread calls the standby callback; otherwise it switches the program scene
\* to the target it was created with.
TimerFire(i) ==
    /\ th[i].pc = "waiting"
    /\ IF is_standby_mode
       THEN /\ th' = IF library THEN [th EXCEPT ![i].pc = "standby_call", ![i].tag = STANDBY]
                     ELSE [th EXCEPT ![i] = [NoThread EXCEPT !.pc = "done"]]
            /\ UNCHANGED <<obs, active_timer_thread, hist>>
       ELSE /\ obs' = set_current_scene(obs, th[i].t_target)
            /\ hist' = IF i = hist.latest
                       THEN [hist EXCEPT !.boundary = TRUE,
                                         !.restored = IF @ < 2 THEN @ + 1 ELSE @]
                       ELSE hist
            /\ IF th[i].t_preview # None
               THEN /\ th' = [th EXCEPT ![i].pc = "settle"]
                    /\ UNCHANGED active_timer_thread
               ELSE /\ th' = [th EXCEPT ![i] = [NoThread EXCEPT !.pc = "done"]]
                    /\ active_timer_thread' = 0
    /\ UNCHANGED <<libvars, libhist, library, is_timed_playback, current_target_scene,
                   current_preview_target, is_standby_mode, ignore_end_event_counter,
                   events, response>>

\* The preview scene is set 0.5 s after the program scene was switched: by the
\* timer thread (lines 244-248), which then clears active_timer_thread, or by
\* the thread the event handler started (main.py lines 148-152).
SetPreviewDelayed(t) ==
    /\ th[t].pc = "settle"
    /\ obs' = set_current_preview_scene(obs, th[t].t_preview)
    /\ th' = [th EXCEPT ![t] = [NoThread EXCEPT !.pc = "done"]]
    /\ active_timer_thread' = IF t \in TimerThreads THEN 0 ELSE active_timer_thread
    /\ UNCHANGED <<libvars, libhist, library, is_timed_playback, current_target_scene,
                   current_preview_target, is_standby_mode, ignore_end_event_counter,
                   events, response, hist>>

\* The clip bound to the media source plays to its end: the composition
\* service reports the media source as ended.
MediaEnds ==
    /\ obs.media.playing
    /\ obs' = [obs EXCEPT !.media.playing = FALSE]
    /\ events' = Append(events, [session |-> obs.media.session, stale |-> FALSE])
    /\ UNCHANGED <<libvars, libhist, ctlvars, th, response, hist>>

\* A wrong variant of OnMediaEnded: the handler goes to its standby test (line
\* 134) without reading the counter and without testing is_timed_playback.
OnMediaEndedUnguarded ==
    /\ events # << >>
    /\ events' = Tail(events)
    /\ LET e == Head(events)
       IN IF is_standby_mode
          THEN /\ th' = IF library
                        THEN [th EXCEPT ![EvtThread(e)].pc = "standby_call",
                                        ![EvtThread(e)].tag = STANDBY]
                        ELSE th
               /\ UNCHANGED <<obs, hist>>
          ELSE LET target == IF current_target_scene # None THEN current_target_scene
                             ELSE SCENE_PREVIEW
                   preview_target == current_preview_target
               IN /\ obs' = set_current_scene(obs, target)
                  /\ th' = IF preview_target # None
                           THEN [th EXCEPT ![EvtThread(e)].pc = "settle",
                                           ![EvtThread(e)].t_target = target,
                                           ![EvtThread(e)].t_preview = preview_target]
                           ELSE th
                  /\ hist' = [hist EXCEPT !.restored = IF @ < 2 THEN @ + 1 ELSE @]
    /\ UNCHANGED <<libvars, libhist, ctlvars, response>>

\* A variant of OnMediaEnded for a controller that needs no counter: the
\* handler starts at its test of is_timed_playback (line 131).
OnMediaEndedFromModeTest ==
    /\ events # << >>
    /\ events' = Tail(events)
    /\ LET e == Head(events)
       IN IF is_timed_playback
          THEN UNCHANGED <<obs, th, hist>>
          ELSE IF is_standby_mode
          THEN /\ th' = IF library
                        THEN [th EXCEPT ![EvtThread(e)].pc = "standby_call",
                                        ![EvtThread(e)].tag = STANDBY]
                        ELSE th
               /\ UNCHANGED <<obs, hist>>
          ELSE LET target == IF current_target_scene # None THEN current_target_scene
                             ELSE SCENE_PREVIEW
                   preview_target == current_preview_target
               IN /\ obs' = set_current_scene(obs, target)
                  /\ th' = IF preview_target # None
                           THEN [th EXCEPT ![EvtThread(e)].pc = "settle",
                                           ![EvtThread(e)].t_target = target,
                                           ![EvtThread(e)].t_preview = preview_target]
                           ELSE th
                  /\ hist' = [hist EXCEPT !.restored = IF @ < 2 THEN @ + 1 ELSE @]
    /\ UNCHANGED <<libvars, libhist, ctlvars, response>>

\* main.py, on_media_input_playback_state_changed, for the oldest undelivered
\* notification. Reading obs_controller.ignore_end_event_counter (line 125)
\* raises AttributeError when the controller has no such attribute, and the
\* handler ends there.
OnMediaEnded ==
    /\ events # << >>
    /\ events' = Tail(events)
    /\ LET e == Head(events)
           h == [hist EXCEPT !.boundary =
                    @ \/ (~e.stale /\ e.session = hist.latest /\ hist.mode = "untimed"
                            /\ ~is_standby_mode)]
       IN IF ignore_end_event_counter = << >>
          THEN /\ hist' = h
               /\ UNCHANGED <<ignore_end_event_counter, obs, th>>
          ELSE IF ignore_end_event_counter[1] > 0
          THEN /\ ignore_end_event_counter' = <<ignore_end_event_counter[1] - 1>>
               /\ hist' = h
               /\ UNCHANGED <<obs, th>>
          ELSE IF is_timed_playback
          THEN /\ hist' = h
               /\ UNCHANGED <<ignore_end_event_counter, obs, th>>
          ELSE IF is_standby_mode
          THEN /\ th' = IF library
                        THEN [th EXCEPT ![EvtThread(e)].pc = "standby_call",
                                        ![EvtThread(e)].tag = STANDBY]
                        ELSE th
               /\ hist' = h
               /\ UNCHANGED <<ignore_end_event_counter, obs>>
          ELSE LET target == IF current_target_scene # None THEN current_target_scene
                             ELSE SCENE_PREVIEW
                   preview_target == current_preview_target
               IN /\ obs' = set_current_scene(obs, target)
                  /\ th' = IF preview_target # None
                           THEN [th EXCEPT ![EvtThread(e)].pc = "settle",
                                           ![EvtThread(e)].t_target = target,
                                           ![EvtThread(e)].t_preview = preview_target]
                           ELSE th
                  /\ hist' = [h EXCEPT !.restored = IF @ < 2 THEN @ + 1 ELSE @]
                  /\ UNCHANGED ignore_end_event_counter
    /\ UNCHANGED <<libvars, libhist, library, is_timed_playback, active_timer_thread,
                   current_target_scene, current_preview_target, is_standby_mode,
                   response>>

Next ==
    \/ SetLibrary
    \/ \E tag \in RequestTags : HandlePlayRequest(tag)
    \/ \E t \in Threads : PlayStandbyVideo(t)
    \/ \E t \in Threads : PvsBegin(t)
    \/ \E t \in Threads : PvsSetTarget(t)
    \/ \E t \in Threads : PvsSetPreview(t)
    \/ \E t \in Threads : PvsCommands(t)
    \/ \E t \in Threads : PvsFinish(t)
    \/ \E i \in TimerThreads : TimerCheck(i)
    \/ \E i \in TimerThreads : TimerFire(i)
    \/ \E t \in Threads : SetPreviewDelayed(t)
    \/ MediaEnds
    \/ OnMediaEnded

\* The orchestrator with its threads, the composition service and the library.
Spec == Init /\ [][Next]_vars

\* The same, started with any scene on program.
AbSpec == AbInit /\ [][Next]_vars

\* The program from a start with the media source possibly playing.
IdleSpec == IdleInit /\ [][Next]_vars

\* ----------------------------------------------------------------- claims

\* C1: a timer whose session was replaced by a later play before its deadline
\* does nothing when its delay is over: no scene switch, no preview assignment,
\* no standby step, and active_timer_thread is left alone.
C1_StaleTimerNoOp ==
    [][\A i \in TimerThreads :
          (hist.latest > i /\ TimerFire(i)) =>
              /\ obs' = obs
              /\ active_timer_thread' = active_timer_thread
              /\ th'[i].pc = "done"]_vars

\* C2: a session that reached its end without being replaced (outside standby
\* mode) has had exactly one restore sequence executed for it.
C2_OneRestorePerBoundary == hist.boundary => hist.restored = 1

\* C3: between two refills of a tag's bag every pair of the tag's pool is popped
\* exactly once: the pairs popped since the last refill and the pairs left in
\* the bag are together the pool without repeats, so N consecutive calls from an
\* empty or missing bag return every pair once; refills happen exactly every N
\* pops, so the (N+1)th call refills the bag and leaves N-1 pairs in it.
C3_ShuffleBagExhaustive ==
    \A tag \in DOMAIN shuffle_pools :
        LET pool == tag_cache(tag)
            bag == shuffle_pools[tag]
            d == drawn[tag]
        IN /\ NoRepeats(d \o bag)
           /\ Range(d \o bag) = Range(pool)
           /\ Len(d) + Len(bag) = Len(pool)
           /\ pops[tag] >= 1
           /\ Len(d) = ((pops[tag] - 1) % Len(pool)) + 1

\* C3 witness: the (N+1)th call on the largest tag has refilled its bag and
\* left N-1 pairs, calls on another tag having come in between.
C3_Witness ==
    /\ pops["clips"] = NSeg + 1
    /\ lib_result.tag = "clips" /\ lib_result.refilled
    /\ Len(shuffle_pools["clips"]) = NSeg - 1
    /\ pops["intro"] >= 1

\* C4: a call for a tag that is not indexed, or indexed with no segment, raises
\* ValueError and leaves every bag as it was: none created, refilled or popped.
C4_NotFoundLeavesBags ==
    [][\A tag \in AllTags :
          (TagNotFound(tag) /\ LibSelect(tag)) =>
              /\ shuffle_pools' = shuffle_pools
              /\ lib_result'.exc = "ValueError"
              /\ lib_result'.pair = NoPair]_vars

\* C4 witness: a call for an empty or unknown tag has failed while other bags
\* hold pairs.
C4_Witness ==
    /\ lib_result.tag \in {"empty", "missing"}
    /\ lib_result.exc = "ValueError"
    /\ \E t \in DOMAIN shuffle_pools : shuffle_pools[t] # << >>

\* C5: when an ended notification is handled, the suppression counter exists and
\* is not negative, and if it is positive the notification is discarded (no
\* scene switch, no preview assignment, no standby step) and the counter goes
\* down by exactly one.
C5_StaleNotificationSuppressed ==
    [][OnMediaEnded =>
          /\ ignore_end_event_counter # << >>
          /\ ignore_end_event_counter[1] >= 0
          /\ ignore_end_event_counter[1] > 0 =>
                /\ ignore_end_event_counter' = <<ignore_end_event_counter[1] - 1>>
                /\ obs' = obs
                /\ th' = th]_vars

\* C6: a play sequence that rebinds the media source while a previous clip is
\* bound increments the suppression counter by exactly one.
C6_RebindIncrementsCounter ==
    [][(obs.media.session # 0 /\ obs'.media.session # obs.media.session) =>
          /\ ignore_end_event_counter # << >>
          /\ ignore_end_event_counter' = <<ignore_end_event_counter[1] + 1>>]_vars

\* C7: a request for a non-standby tag leaves the standby flag cleared, and once
\* a request has cleared it and started a new session, a restore switches the
\* program scene to that session's target: a timer of the standby loop does not
\* switch it to the loop's target.
C7_RestoreUsesNewTarget ==
    [][/\ \A tag \in RequestTags \ {STANDBY} : HandlePlayRequest(tag) => ~is_standby_mode'
       /\ \A i \in TimerThreads :
             (th[i].loop /\ hist.latest > i /\ ~is_standby_mode /\ TimerFire(i)) =>
                 obs'.program_scene = current_target_scene]_vars

\* C8: when the duration poll has failed (-1), play_video_segment finishes
\* untimed whatever the segment's end marker: is_timed_playback is false and no
\* timer thread is created.
C8_FailedPollUntimed ==
    [][\A t \in Threads :
          \A cursor \in CursorReadings(CommandedStartMs(th[t].segment)) :
             PvsFinishWith(t, -1, cursor) =>
                 /\ is_timed_playback' = FALSE
                 /\ active_timer_thread' = active_timer_thread
                 /\ \A i \in TimerThreads : th'[i].pc = "sleep01" => th[i].pc = "sleep01"]_vars

\* C9: a request for an unknown or empty tag is answered 404 and changes none of
\* the standby flag, the recorded target scene, the recorded preview target,
\* the timed/untimed mode and the active timer thread.
C9_NotFoundChangesNothing ==
    [][\A tag \in RequestTags \ {STANDBY} :
          (library /\ TagNotFound(tag) /\ HandlePlayRequest(tag)) =>
              /\ response'.code = 404
              /\ UNCHANGED <<is_standby_mode, current_target_scene, current_preview_target,
                             is_timed_playback, active_timer_thread>>]_vars

\* C10: the answer of handle_play_request, for every tag: 404 exactly when the
\* tag is unknown or has no segment (the library being set), 500 when the
\* library is not set, 200 only when a segment was selected and the play
\* sequence was issued.
C10_ResultCodeMapping ==
    response.code # 0 =>
        /\ response.code \in {200, 404, 500}
        /\ response.code = 200 => response.played
        /\ response.code = 404 => TagNotFound(response.tag)
        /\ (response.library /\ TagNotFound(response.tag)) => response.code = 404
        /\ ~response.library => response.code = 500

\* C11: the failure of one command of a play sequence does not abort it: the
\* later commands are still issued and play_video_segment goes on to decide
\* between timed and untimed mode.
C11_CommandFailureContinues ==
    [][\A t \in Threads :
          PvsCommands(t) =>
              /\ th'[t].pc = "pvs_poll"
              /\ obs'.media.playing]_vars

\* C12: calculate_ab_transition answers target Main, preview Preview, show the
\* preview background, hide the main background when the current scene is
\* Preview, and target Preview, preview Main, show the main background, hide
\* the preview background for every other input (Main, the event scene, an
\* unknown scene, None); a request enters play_video_segment with the answer
\* for the scene it read (None when the read failed).
C12_TransitionTable ==
    [][/\ \A current \in {SCENE_MAIN, SCENE_PREVIEW, SCENE_EVENT, SCENE_OTHER, None} :
             LET r == calculate_ab_transition(current)
             IN IF current = SCENE_PREVIEW
                THEN /\ r.target_scene = SCENE_MAIN /\ r.preview_scene = SCENE_PREVIEW
                     /\ r.bg_source = SOURCE_BG_PREVIEW /\ r.hide_source = SOURCE_BG_MAIN
                ELSE /\ r.target_scene = SCENE_PREVIEW /\ r.preview_scene = SCENE_MAIN
                     /\ r.bg_source = SOURCE_BG_MAIN /\ r.hide_source = SOURCE_BG_PREVIEW
       /\ \A tag \in RequestTags \ {STANDBY} :
             (HandlePlayRequest(tag) /\ th'[ReqThread].pc = "pvs_begin") =>
                 LET a == th'[ReqThread]
                     current == IF hist'.faults = hist.faults THEN obs.program_scene ELSE None
                 IN IF current = SCENE_PREVIEW
                    THEN /\ a.target = SCENE_MAIN /\ a.preview = SCENE_PREVIEW
                         /\ a.bg = SOURCE_BG_PREVIEW /\ a.hide = SOURCE_BG_MAIN
                    ELSE /\ a.target = SCENE_PREVIEW /\ a.preview = SCENE_MAIN
                         /\ a.bg = SOURCE_BG_MAIN /\ a.hide = SOURCE_BG_PREVIEW]_vars

\* C12 witness: a request that arrived with an unknown scene on program has
\* entered play_video_segment with target Preview.
C12_Witness ==
    /\ th[ReqThread].pc = "pvs_begin"
    /\ hist.nplays = 1 /\ hist.faults = 0
    /\ obs.program_scene = SCENE_OTHER
    /\ th[ReqThread].target = SCENE_PREVIEW
    /\ th[ReqThread].hide = SOURCE_BG_PREVIEW

\* C13: on the two slots calculate_ab_transition is an involution (the target
\* of the target of s is s), and the target and preview of each answer are the
\* two distinct slots, also for the answer a request enters play_video_segment
\* with.
C13_TransitionInvolution ==
    [][/\ \A s \in {SCENE_MAIN, SCENE_PREVIEW} :
             LET r == calculate_ab_transition(s)
             IN /\ calculate_ab_transition(r.target_scene).target_scene = s
                /\ r.target_scene # r.preview_scene
                /\ {r.target_scene, r.preview_scene} = {SCENE_MAIN, SCENE_PREVIEW}
                /\ r.target_scene # s
       /\ \A tag \in RequestTags \ {STANDBY} :
             (HandlePlayRequest(tag) /\ th'[ReqThread].pc = "pvs_begin"
                /\ hist'.faults = hist.faults
                /\ obs.program_scene \in {SCENE_MAIN, SCENE_PREVIEW}) =>
                 /\ th'[ReqThread].target # obs.program_scene
                 /\ th'[ReqThread].preview = obs.program_scene
                 /\ calculate_ab_transition(th'[ReqThread].target).target_scene
                       = obs.program_scene]_vars

\* C13 witness: the first session went from Main to Preview, its timer has put
\* Preview on program, and the second request has computed Main as its target.
C13_Witness ==
    /\ hist.nplays = 2 /\ hist.faults = 0
    /\ th[ReqThread].pc = "pvs_begin"
    /\ th[ReqThread].target = SCENE_MAIN
    /\ obs.program_scene = SCENE_PREVIEW
    /\ th[1].pc = "settle" /\ th[1].t_target = SCENE_PREVIEW

\* The slot that is not s.
OtherSlot(s) == IF s = SCENE_MAIN THEN SCENE_PREVIEW ELSE SCENE_MAIN

\* C14: when a request arrives with a slot on program and its session is
\* restored before any later request, the restore puts the opposite slot on
\* program and then sets the preview scene to the slot the request found on
\* program, so that program and preview differ after the restore.
C14_AbAlternation ==
    [][\A i \in TimerThreads :
          (/\ hist.nplays = i
           /\ th[ReqThread].pc = "idle"
           /\ ~th[i].loop
           /\ ~is_standby_mode
           /\ hist.origin \in {SCENE_MAIN, SCENE_PREVIEW}) =>
              /\ TimerFire(i) =>
                    /\ obs'.program_scene = OtherSlot(hist.origin)
                    /\ th'[i].pc = "settle"
              /\ SetPreviewDelayed(i) =>
                    /\ obs'.preview_scene = hist.origin
                    /\ obs'.program_scene = OtherSlot(hist.origin)]_vars

\* The same when no request to the composition service has failed.
C14_AbAlternationNoFault ==
    [][\A i \in TimerThreads :
          (/\ hist.nplays = i
           /\ th[ReqThread].pc = "idle"
           /\ hist.faults = 0
           /\ ~th[i].loop
           /\ ~is_standby_mode
           /\ hist.origin \in {SCENE_MAIN, SCENE_PREVIEW}) =>
              /\ TimerFire(i) =>
                    /\ obs'.program_scene = OtherSlot(hist.origin)
                    /\ th'[i].pc = "settle"
              /\ SetPreviewDelayed(i) =>
                    /\ obs'.preview_scene = hist.origin
                    /\ obs'.program_scene = OtherSlot(hist.origin)]_vars

C16_TimerArmingRule ==
    [][/\ \A t \in Threads :
          \A d \in PollResults :
             \A cursor \in CursorReadings(CommandedStartMs(th[t].segment)) :
                (PvsFinishWith(t, d, cursor) /\ d > 0) =>
                    LET seg == th[t].segment
                        s == th[t].session
                        E == IF seg.end_time.num THEN seg.end_time.ms ELSE d
                        commanded == IF seg.start_time.num THEN seg.start_time.ms ELSE 0
                        actualStart == IF cursor.readable /\ cursor.ms >= 0 THEN cursor.ms
                                       ELSE commanded
                        delay == E - actualStart + 200
                    IN E > 0 =>
                         IF delay > 0
                         THEN /\ is_timed_playback'
                              /\ active_timer_thread' = s
                              /\ th'[s].pc = "sleep01"
                              /\ th'[s].delay = delay
                         ELSE /\ ~is_timed_playback'
                              /\ active_timer_thread' = active_timer_thread
                              /\ th'[s] = th[s]
       /\ PlayDurationMs(VideoSegment(NoSegment.file_path, Num(5000), Num(10000), 80),
                         20000, [readable |-> TRUE, ms |-> 5000]) = 5200]_vars

\* C16 witness: the segment from 5.0 s to 10.0 s, the cursor read back at 5.0 s,
\* has its timer armed with 5200 ms.
C16_Witness ==
    /\ th[1].pc = "sleep01"
    /\ th[1].delay = 5200
    /\ is_timed_playback
    /\ active_timer_thread = 1
    /\ obs.media.file.name.stem = "a"

\* C16 second case: a session whose cursor was read back beyond the end is
\* untimed with no timer.
C16_WitnessUntimed ==
    /\ hist.mode = "untimed"
    /\ hist.latest = 1
    /\ th[1].pc = "none"
    /\ obs.media.file.name.stem = "a"
    /\ obs.media.playing

\* C17: when the standby flag has been cleared while a standby step is playing
\* (and no later session has been started), the restore that follows switches
\* the program scene to the scene that was on program when the standby loop was
\* started, and then sets the preview scene to that scene's alternation partner.
C17_StandbyExitRestoresOrigin ==
    [][\A i \in TimerThreads :
          (th[i].loop /\ hist.nplays = i /\ ~is_standby_mode) =>
              /\ TimerFire(i) => obs'.program_scene = hist.origin
              /\ SetPreviewDelayed(i) =>
                    obs'.preview_scene = calculate_ab_transition(hist.origin).target_scene]_vars

\* C18: loading a catalog raises ValueError exactly when a required key is
\* missing or the video list is empty: no library is constructed from a catalog
\* with a missing key or with no video.
C18_CatalogLoadRejects ==
    /\ constructed = "yes" =>
          /\ Range(RequiredKeys) \subseteq settings.keys
          /\ settings.videos > 0
    /\ constructed = "ValueError" =>
          \/ ~(Range(RequiredKeys) \subseteq settings.keys)
          \/ settings.videos = 0

\* Loading a catalog raises ValueError exactly when a required key is missing.
C18_MissingKeyRejected ==
    /\ constructed = "yes" => Range(RequiredKeys) \subseteq settings.keys
    /\ constructed = "ValueError" => ~(Range(RequiredKeys) \subseteq settings.keys)

\* C19: a 'media ended' notification produced by rebinding the media source,
\* delivered after play_video_segment began and before the mode of the new
\* session is decided, triggers neither a restore nor a standby step: the
\* handler changes nothing in the composition service and starts no thread.
C19_RebindNotificationInert ==
    [][(/\ events # << >>
        /\ Head(events).stale
        /\ hist.mode = "pending"
        /\ OnMediaEnded)
       => (obs' = obs /\ th' = th)]_vars

\* The notification of a rebind is about to be delivered while the session
\* that rebound the source has the event scene on program and no mode yet.
C19_Witness ==
    /\ events # << >>
    /\ Head(events).stale
    /\ Head(events).session = 1
    /\ hist.mode = "pending"
    /\ hist.latest = 2
    /\ th[ReqThread].pc = "pvs_poll"
    /\ obs.program_scene = SCENE_EVENT
    /\ ~is_standby_mode

\* C20: the preview-scene assignment a restore schedules 0.5 s after its
\* program-scene switch does not take effect once a new play request has
\* replaced the session: a superseded timer session leaves the preview scene
\* as it is.
C20_SupersededNeverSetsPreview ==
    [][\A i \in TimerThreads :
          (hist.latest > i /\ SetPreviewDelayed(i))
             => obs'.preview_scene = obs.preview_scene]_vars

\* C21: in timed mode, with no suppression pending, a 'media ended'
\* notification for the media source is ignored: the handler sends no request
\* to the composition service, starts no thread and leaves every field of the
\* controller as it is.
C21_TimedNotificationIgnored ==
    [][(/\ events # << >>
        /\ is_timed_playback
        /\ ignore_end_event_counter \in {<< >>, <<0>>}
        /\ OnMediaEnded)
       => (obs' = obs /\ th' = th /\ ctlvars' = ctlvars)]_vars

\* The clip of a timed session played to its end before the timer fired, and
\* the notification is about to be delivered.
C21_Witness ==
    /\ events # << >>
    /\ ~Head(events).stale
    /\ Head(events).session = hist.latest
    /\ is_timed_playback
    /\ hist.mode = "timed"
    /\ th[hist.latest].pc = "waiting"
    /\ obs.program_scene = SCENE_EVENT

C23_StandbyLoopContinues ==
    [][/\ \A i \in TimerThreads :
            (/\ is_standby_mode /\ library
             /\ hist.standby /\ hist.latest = i /\ hist.mode = "timed"
             /\ TimerFire(i))
            => th'[i].pc = "standby_call"
       /\ (/\ is_standby_mode /\ library
           /\ hist.standby /\ hist.mode = "untimed"
           /\ events # << >>
           /\ ~Head(events).stale /\ Head(events).session = hist.latest
           /\ OnMediaEnded)
          => \E t \in Threads :
                /\ th[t].pc # "standby_call" /\ th'[t].pc = "standby_call"
                /\ \A u \in Threads \ {t} : th'[u] = th[u]]_vars

\* The timer of a timed standby step starts the next step when its delay is over.
C23_TimedStepContinues ==
    [][\A i \in TimerThreads :
          (/\ is_standby_mode /\ library
           /\ hist.standby /\ hist.latest = i /\ hist.mode = "timed"
           /\ TimerFire(i))
          => th'[i].pc = "standby_call"]_vars

\* C24: every standby step records target = Main scene and preview = Preview
\* scene and shows the Main background source, whatever scene is on program
\* when the step starts: all steps of a loop record the same pair.
C24_StandbyStepFixedPair ==
    [][\A t \in Threads :
          /\ (PlayStandbyVideo(t) /\ th'[t].pc = "pvs_begin") =>
                /\ th'[t].target = SCENE_MAIN
                /\ th'[t].preview = SCENE_PREVIEW
                /\ th'[t].bg = SOURCE_BG_MAIN
          /\ (PvsSetTarget(t) /\ th[t].tag = STANDBY) =>
                current_target_scene' = SCENE_MAIN
          /\ (PvsSetPreview(t) /\ th[t].tag = STANDBY) =>
                current_preview_target' = SCENE_PREVIEW
          /\ (/\ PvsCommands(t) /\ th[t].tag = STANDBY
              /\ hist'.faults = hist.faults) =>
                SOURCE_BG_MAIN \in obs'.bg]_vars

\* The second step of a standby loop that began with the Preview scene on
\* program, started by the first step's timer with the event scene on program,
\* has recorded its pair.
C24_Witness ==
    \E i \in TimerThreads :
        /\ th[i].pc = "pvs_cmds"
        /\ th[i].tag = STANDBY
        /\ th[i].session = 2
        /\ is_standby_mode
        /\ hist.origin = SCENE_PREVIEW
        /\ obs.program_scene = SCENE_EVENT
        /\ current_target_scene = SCENE_MAIN
        /\ current_preview_target = SCENE_PREVIEW

\* The positions of the command x in a sequence of commands.
PositionsOf(cmds, x) == {n \in DOMAIN cmds : cmds[n] = x}

\* Every x of the sequence comes before every y of it.
AllBefore(cmds, x, y) ==
    \A n \in PositionsOf(cmds, x) : \A m \in PositionsOf(cmds, y) : n < m

\* The order the play sequence is to have for the arguments a, the program
\* scene being current_scene.
InPlayOrder(cmds, a, current_scene) ==
    /\ Cardinality(PositionsOf(cmds, "hide")) = (IF a.hide # None THEN 1 ELSE 0)
    /\ \A x \in {"show", "mute", "bind", "volume", "unmute", "play"} :
          Cardinality(PositionsOf(cmds, x)) = 1
    /\ Cardinality(PositionsOf(cmds, "scene")) =
          (IF current_scene # SCENE_EVENT THEN 1 ELSE 0)
    /\ Cardinality(PositionsOf(cmds, "cursor")) =
          (IF IsNumber(a.segment.start_time) THEN 5 ELSE 0)
    /\ AllBefore(cmds, "hide", "show")
    /\ AllBefore(cmds, "show", "mute")
    /\ AllBefore(cmds, "mute", "bind")
    /\ AllBefore(cmds, "bind", "volume")
    /\ AllBefore(cmds, "volume", "scene")
    /\ AllBefore(cmds, "volume", "cursor")
    /\ AllBefore(cmds, "scene", "cursor")
    /\ AllBefore(cmds, "volume", "unmute")
    /\ AllBefore(cmds, "scene", "unmute")
    /\ AllBefore(cmds, "cursor", "unmute")
    /\ AllBefore(cmds, "unmute", "play")
    /\ cmds[Len(cmds)] = "play"

C25_WitnessNoSwitch ==
    /\ th[ReqThread].pc = "pvs_poll"
    /\ hist.faults = 0
    /\ hist.nplays = 2
    /\ hist.origin = SCENE_EVENT
    /\ obs.media.session = 2
    /\ obs.media.playing

\* C26: while the event scene is on program because a clip is playing, a play
\* request that supersedes the playing session does not change which
\* background source is enabled in the event scene (no request failing).
C26_BackgroundDoesNotPop ==
    [][(/\ PvsCommands(ReqThread)
        /\ th[ReqThread].tag # STANDBY
        /\ obs.program_scene = SCENE_EVENT
        /\ obs.media.playing
        /\ hist'.faults = 0)
       => obs'.bg = obs.bg]_vars

\* With the Main scene on program before the event scene took over, the
\* superseding request leaves the enabled background as it is.
C26_NoPopFromMain ==
    [][(/\ PvsCommands(ReqThread)
        /\ th[ReqThread].tag # STANDBY
        /\ obs.program_scene = SCENE_EVENT
        /\ obs.media.playing
        /\ obs.bg = {SOURCE_BG_MAIN}
        /\ hist'.faults = 0)
       => obs'.bg = obs.bg]_vars

\* C27: for every selected (entry, segment) the selector returns a result for,
\* the result points to the pre-rendered clip named from (stem, start, end)
\* with start = end = "full" when that file is in the clips directory, and
\* otherwise to the raw file with the start and end resolved from the catalog
\* strings; the volume multiplier is the entry's, or 1.0 when it has none.
C27_ClipSubstitution ==
    (lib_result.pair # NoPair /\ lib_result.exc = None) =>
        LET video == Videos[lib_result.pair.v]
            seg == video.tags[lib_result.pair.tag][lib_result.pair.i]
            clip == ClippedFilename(video, seg)
            r == lib_result.segment
        IN /\ clip \in clips_dir =>
                /\ r.file_path = [dir |-> "clips", name |-> clip]
                /\ r.start_time = Lit("full")
                /\ r.end_time = Lit("full")
           /\ clip \notin clips_dir =>
                /\ r.file_path = [dir |-> "raw", name |-> video.file_name]
                /\ r.start_time = to_seconds(seg.start_time)
                /\ r.end_time = to_seconds(seg.end_time)
           /\ r.volume_multiplier =
                (IF video.volume_multiplier = << >> THEN 100 ELSE video.volume_multiplier[1])

\* The selector returned the pre-rendered clip of b.mp4's intro segment, an
\* entry with no volume multiplier: start and end are "full", the multiplier 1.0.
C27_Witness ==
    /\ lib_result.exc = None
    /\ lib_result.pair.v = 2
    /\ lib_result.segment.file_path.dir = "clips"
    /\ lib_result.segment.file_path.name.root = "b"
    /\ lib_result.segment.start_time = Lit("full")
    /\ lib_result.segment.end_time = Lit("full")
    /\ lib_result.segment.volume_multiplier = 100

\* The selector returned the raw file of a.mp4's intro segment, no clip of it
\* being rendered, while the clip of b.mp4's intro segment is.
C27_WitnessRaw ==
    /\ lib_result.exc = None
    /\ lib_result.pair.v = 1
    /\ lib_result.pair.tag = "intro"
    /\ clips_dir # {}
    /\ lib_result.segment.file_path.dir = "raw"
    /\ lib_result.segment.start_time = Num(5000)
    /\ lib_result.segment.end_time = Num(10000)
    /\ lib_result.segment.volume_multiplier = 80

\* C28: the active-timer token of the latest session is changed only by a
\* later play request or by that session's own timer completing: the timer of
\* an older session, firing or finishing its restore, leaves it as it is.
C28_OlderTimerKeepsToken ==
    [][\A i \in TimerThreads :
          (/\ active_timer_thread \in TimerThreads
           /\ active_timer_thread # i
           /\ (TimerCheck(i) \/ TimerFire(i) \/ SetPreviewDelayed(i)))
          => active_timer_thread' = active_timer_thread]_vars

\* No play sequence is in progress and no timer is pending, and either no play
\* request has been handled yet or the restore of the latest session has been
\* executed.
Idle ==
    /\ th[ReqThread].pc = "idle"
    /\ \A t \in Threads \ {ReqThread} : th[t].pc \in {"none", "done"}
    /\ ~is_standby_mode
    /\ \/ hist.nplays = 0
       \/ hist.latest = hist.nplays /\ hist.restored > 0

\* C29: in Idle a 'media ended' notification for the media source has no
\* effect: the handler switches no program scene and schedules no preview
\* assignment.
C29_IdleNotificationInert ==
    [][(Idle /\ OnMediaEnded) => (obs' = obs /\ th' = th)]_vars

\* Before any play request, the file the media source was playing when the
\* program started has ended and its notification is about to be delivered.
C29_Witness ==
    /\ Idle
    /\ hist.nplays = 0
    /\ current_target_scene = None
    /\ events # << >>
    /\ Head(events).session = 0

\* After a session's restore, with the preview scene set, the clip reaches its
\* end and its notification is about to be delivered.
C29_WitnessAfterRestore ==
    /\ Idle
    /\ hist.nplays = 1
    /\ hist.restored = 1
    /\ obs.program_scene = current_target_scene
    /\ events # << >>
    /\ Head(events).session = 1

\* C30: once a play sequence has recorded its scenes, the recorded target scene
\* and the recorded preview target are, in every state, two distinct members of
\* {Main scene, Preview scene}.
C30_RecordedPairDistinct ==
    (current_target_scene # None /\ current_preview_target # None) =>
        /\ current_target_scene \in {SCENE_MAIN, SCENE_PREVIEW}
        /\ current_preview_target \in {SCENE_MAIN, SCENE_PREVIEW}
        /\ current_target_scene # current_preview_target

\* While no play sequence is between its assignments of lines 255 and 257, the
\* recorded pair is two distinct members of {Main scene, Preview scene}.
C30_PairBetweenSequences ==
    (/\ hist.latest > 0
     /\ \A t \in Threads : th[t].pc \notin {"pvs_target", "pvs_preview"}) =>
        /\ current_target_scene \in {SCENE_MAIN, SCENE_PREVIEW}
        /\ current_preview_target \in {SCENE_MAIN, SCENE_PREVIEW}
        /\ current_target_scene # current_preview_target

\* C31: when two contexts call the selector on a tag with at least one segment
\* under any interleaving of the test, the refill and the pop, no call fails by
\* popping from an empty bag and no pair is returned twice between two
\* consecutive refills.
C31_ConcurrentSelectionsSafe ==
    /\ lib_result.exc # "IndexError"
    /\ \A tag \in RaceTags : NoRepeats(drawn[tag])

\* One context alone never pops from an empty bag and never draws a pair twice
\* between two refills.
C31_SequentialSelectionsSafe ==
    (\E t \in SelectThreads : th[t].pc \in {"none"}) =>
        /\ lib_result.exc # "IndexError"
        /\ \A tag \in RaceTags : NoRepeats(drawn[tag])

\* C32: a play request that fails with code 500 because a request to the
\* composition service raised in the middle of the play sequence leaves the
\* session as it was: with the timer of the previous, timed session still
\* pending, the mode is still timed and the recorded target scene and preview
\* target are still those that timer was created with.
C32_FailedRequestKeepsSession ==
    [][\A i \in TimerThreads :
          (/\ PvsCommands(ReqThread)
           /\ th[ReqThread].tag # STANDBY
           /\ th'[ReqThread].pc = "idle"
           /\ response'.code = 500
           /\ active_timer_thread = i
           /\ th[ReqThread].session = i + 1
           /\ th[i].pc \in {"sleep01", "waiting"}
           /\ ~th[i].loop)
          => /\ is_timed_playback'
             /\ current_target_scene' = th[i].t_target
             /\ current_preview_target' = th[i].t_preview]_vars

\* The failing request leaves the timer of the previous session pending and
\* active: it remains an owner of that session's completion.
C32_FailedRequestKeepsTimer ==
    [][\A i \in TimerThreads :
          (/\ PvsCommands(ReqThread)
           /\ th'[ReqThread].pc = "idle"
           /\ response'.code = 500
           /\ active_timer_thread = i
           /\ th[i].pc \in {"sleep01", "waiting"})
          => /\ active_timer_thread' = i
             /\ th'[i] = th[i]]_vars

====
